---- MODULE Spec2Model ----
(***************************************************************************)
(* Model of chat_ui/voice_recorder.py (class VoiceRecorder): the capture / *)
(* segmentation / transcription / dispatch loop, its start/stop surface    *)
(* and the persona-switch command parsing done on each transcript.         *)
(*                                                                         *)
(* Text is modelled as a sequence of one-character strings so that         *)
(* str.strip, str.lower, re.match and re.sub are computed, not assumed.    *)
(***************************************************************************)
EXTENDS Integers, Sequences, FiniteSets, TLC

(***************************************************************************)
(* Bounds of the model (not program constants).                            *)
(***************************************************************************)
MaxStarts == 2
MaxSegments == 3
MaxFrames == 2

(***************************************************************************)
(* Program constants.                                                      *)
(***************************************************************************)
max_empty_loops == 3
\* seconds
silence_duration == 4

(***************************************************************************)
(* Characters and strings.                                                 *)
(***************************************************************************)
Upper == {"A", "H", "S", "T", "O"}
LowerLetters == {"a", "c", "e", "g", "h", "i", "l", "n", "o", "p", "r", "s", "t", "w"}
Digits == {"1"}
WordChars == Upper \cup LowerLetters \cup Digits \cup {"_"}
Whitespace == {" ", "\n"}

\* str.lower on one character
LowerChar(c) ==
    CASE c = "A" -> "a"
      [] c = "H" -> "h"
      [] c = "S" -> "s"
      [] c = "T" -> "t"
      [] c = "O" -> "o"
      [] OTHER -> c

\* str.lower
Lower(s) == [i \in 1..Len(s) |-> LowerChar(s[i])]

RECURSIVE LStrip(_)
LStrip(s) == IF s # <<>> /\ Head(s) \in Whitespace THEN LStrip(Tail(s)) ELSE s

RECURSIVE RStrip(_)
RStrip(s) ==
    IF s # <<>> /\ s[Len(s)] \in Whitespace THEN RStrip(SubSeq(s, 1, Len(s) - 1)) ELSE s

\* str.strip
Strip(s) == RStrip(LStrip(s))

\* re.sub(r'[^\w\s]', '', s)
Sanitize_NoHyphen(s) == SelectSeq(s, LAMBDA c : c \in WordChars \cup Whitespace)

\* re.sub(r'[^\w\s-]', '', s)
Sanitize(s) == SelectSeq(s, LAMBDA c : c \in WordChars \cup Whitespace \cup {"-"})

AllIn(s, lo, hi, S) == \A i \in lo..hi : s[i] \in S

Keywords == { <<"s","w","i","t","c","h">>, <<"s","w","a","p">> }

\* The ways r"^(?:switch|swap)\s+to\s+(.+)$" can match t: <<c, e>> where the
\* group (.+) is t[c+1..e]; "." excludes "\n" and "$" also matches just
\* before a final "\n".
MatchSplits(t) ==
    { sp \in (0..Len(t)) \X (1..Len(t)) :
        LET c == sp[1]
            e == sp[2]
        IN  /\ c < e
            /\ \/ e = Len(t)
               \/ e = Len(t) - 1 /\ t[Len(t)] = "\n"
            /\ \A i \in (c + 1)..e : t[i] # "\n"
            /\ \E a \in 1..c : \E b \in a..c :
                 /\ SubSeq(t, 1, a) \in Keywords
                 /\ b > a
                 /\ AllIn(t, a + 1, b, Whitespace)
                 /\ b + 2 < c
                 /\ t[b + 1] = "t" /\ t[b + 2] = "o"
                 /\ AllIn(t, b + 3, c, Whitespace) }

\* re.match(...): does the pattern match at all
Matches(t) == MatchSplits(t) # {}

\* match.group(1): both \s+ and .+ are greedy, so the group starts after the
\* longest whitespace run that still lets the rest match and reaches as far
\* as it can.
Group1(t) ==
    LET S == MatchSplits(t)
        c == CHOOSE x \in {sp[1] : sp \in S} : \A y \in {sp[1] : sp \in S} : y <= x
        e == CHOOSE x \in {sp[2] : sp \in {q \in S : q[1] = c}} :
                 \A y \in {sp[2] : sp \in {q \in S : q[1] = c}} : y <= x
    IN  SubSeq(t, c + 1, e)

(***************************************************************************)
(* Inputs.                                                                 *)
(***************************************************************************)
EmptyText == <<>>
BlankText == <<" ", " ">>
HelloText == <<" ", "H", "e", "l", "l", "o">>
SwitchToAria == <<"S", "w", "i", "t", "c", "h", " ", "t", "o", " ", "A", "r", "i", "a">>
SwapToAria == <<"s", "w", "a", "p", " ", " ", " ", "t", "o", " ", " ", "a", "r", "i", "a", "!", "!">>
SwitchingToAria == <<"s", "w", "i", "t", "c", "h", "i", "n", "g", " ", "t", "o", " ", "a", "r", "i", "a">>

\* what model.transcribe may return for an utterance
Transcripts == {EmptyText, BlankText, HelloText, SwitchToAria}

\* callbacks are named by numbers; None is no callback
None == 0
TranscriptCallback == 1
\* the k-th call of start_recording_async passes no status callback or its own
StatusCallbacks(k) == {None, k}

\* the threads that can be alive at once; a thread that has ended leaves its
\* place to the thread of a later start_recording_async
Workers == {1, 2}

(***************************************************************************)
(* State.                                                                  *)
(***************************************************************************)
VARIABLES
    recording,        \* self.recording
    status_callback,  \* self.status_callback
    continuous_mode,  \* self.continuous_mode
    audio_queue,      \* self.audio_queue
    elapsed,          \* time.time() - self._last_voice_time in whole seconds, cut off
                      \* at silence_duration + 1
    pc,               \* per worker thread: position in _run_loop
    callback,         \* per worker thread: the callback argument of _run_loop
    empty_count,      \* per worker thread: local empty_count
    audio,            \* per worker thread: local audio of _record_until_silence
    stream,           \* the worker threads that hold an sd.InputStream open
    out,              \* per worker thread: the external calls of its latest calling step, in order
    stopped,          \* per worker thread: "Stopped." statuses it has reported
    ntrans,           \* per worker thread: transcripts it has dispatched
    session,          \* per worker thread: the call of start_recording_async, counted
                      \* from 1, that created it
    run,              \* per worker thread: empty transcripts since its last non-empty one
    starts,           \* calls of start_recording_async so far
    last_call,        \* the caller's latest call: "none", "start" or "stop"
    segs,             \* streams opened so far
    abandoned,        \* per worker thread: stop() was called during the segment it
                      \* has captured last and not yet transcribed
    text,             \* parsing harness: the input text
    parsed            \* parsing harness: the outcome of parsing text

progVars == <<recording, status_callback, continuous_mode, audio_queue, elapsed>>
workerVars == <<pc, callback, empty_count, audio, stream, out, stopped, ntrans, run, session>>
countVars == <<starts, last_call, segs, abandoned>>
parseVars == <<text, parsed>>
vars == <<progVars, workerVars, countVars, parseVars>>

NoParse == [matched |-> FALSE, persona |-> <<>>, calls |-> <<>>, done |-> FALSE]

\* One external call made by a worker: kind "transcribe" is model.transcribe
\* returning text; "select_persona" is PersonaService.select_persona(text);
\* "callback" is the transcript callback called with text (to: the callback);
\* the other kinds are status strings: "Listening...", "Transcribing...",
\* "Silent (n/max)", "Switched to text", "Stopped." (to: self.status_callback
\* at that moment, None when the guard "if self.status_callback" skipped it).
Event(kind, n, s, to) == [kind |-> kind, n |-> n, max |-> max_empty_loops, text |-> s, to |-> to]

\* if self.status_callback: self.status_callback(...)
Report(kind, n, s) == Event(kind, n, s, status_callback)

\* a stream is open from the entry of the with block to its exit
StreamOpen(w) == w \in stream

Live(w) == pc[w] \notin {"idle", "done", "crashed"}

RECURSIVE SumLen(_, _)
SumLen(f, S) ==
    IF S = {} THEN 0
    ELSE LET w == CHOOSE x \in S : TRUE IN Len(f[w]) + SumLen(f, S \ {w})

InitRecorder ==
    /\ recording = FALSE
    /\ status_callback = None
    /\ continuous_mode = TRUE
    /\ audio_queue = <<>>
    /\ elapsed = 0
    /\ pc = [w \in Workers |-> "idle"]
    /\ callback = [w \in Workers |-> None]
    /\ empty_count = [w \in Workers |-> 0]
    /\ audio = [w \in Workers |-> <<>>]
    /\ stream = {}
    /\ out = [w \in Workers |-> <<>>]
    /\ stopped = [w \in Workers |-> 0]
    /\ ntrans = [w \in Workers |-> 0]
    /\ session = [w \in Workers |-> 0]
    /\ run = [w \in Workers |-> 0]
    /\ starts = 0
    /\ last_call = "none"
    /\ segs = 0
    /\ abandoned = [w \in Workers |-> FALSE]

Init ==
    /\ InitRecorder
    /\ text = <<>>
    /\ parsed = NoParse

(***************************************************************************)
(* The caller's surface.                                                   *)
(***************************************************************************)
\* the place the next thread takes
FreeWorker == CHOOSE w \in Workers : ~Live(w) /\ \A v \in Workers : ~Live(v) => w <= v

\* start_recording_async without the test of lines 135-137
start_recording_async_NoGuard(cb, on_status) ==
    /\ starts < MaxStarts
    /\ starts' = starts + 1
    /\ last_call' = "start"
    /\ \E w \in Workers : ~Live(w)
    /\ recording' = TRUE
    /\ status_callback' = on_status
    /\ pc' = [pc EXCEPT ![FreeWorker] = "loop"]
    /\ callback' = [callback EXCEPT ![FreeWorker] = cb]
    /\ empty_count' = [empty_count EXCEPT ![FreeWorker] = 0]
    /\ out' = [out EXCEPT ![FreeWorker] = <<>>]
    /\ stopped' = [stopped EXCEPT ![FreeWorker] = 0]
    /\ session' = [session EXCEPT ![FreeWorker] = starts + 1]
    /\ UNCHANGED <<continuous_mode, audio_queue, elapsed, audio, stream, ntrans, run>>
    /\ UNCHANGED <<segs, abandoned, parseVars>>

\* start_recording_async(callback, on_status)
start_recording_async(cb, on_status) ==
    /\ starts < MaxStarts
    /\ starts' = starts + 1
    /\ last_call' = "start"
    /\ IF recording
       THEN UNCHANGED <<progVars, workerVars>>
       ELSE /\ \E w \in Workers : ~Live(w)
            /\ recording' = TRUE
            /\ status_callback' = on_status
            /\ pc' = [pc EXCEPT ![FreeWorker] = "loop"]
            /\ callback' = [callback EXCEPT ![FreeWorker] = cb]
            /\ empty_count' = [empty_count EXCEPT ![FreeWorker] = 0]
            /\ out' = [out EXCEPT ![FreeWorker] = <<>>]
            /\ stopped' = [stopped EXCEPT ![FreeWorker] = 0]
            /\ session' = [session EXCEPT ![FreeWorker] = starts + 1]
            /\ UNCHANGED <<continuous_mode, audio_queue, elapsed, audio, stream, ntrans, run>>
    /\ UNCHANGED <<segs, abandoned, parseVars>>

\* stop() that also empties the frame queue
stop_DropsQueue ==
    /\ last_call' = "stop"
    /\ recording' = FALSE
    /\ audio_queue' = <<>>
    /\ abandoned' = [w \in Workers |-> abandoned[w] \/ pc[w] = "poll"]
    /\ UNCHANGED <<status_callback, continuous_mode, elapsed, workerVars,
                   starts, segs, parseVars>>

\* stop()
stop ==
    /\ last_call' = "stop"
    /\ recording' = FALSE
    /\ abandoned' = [w \in Workers |-> abandoned[w] \/ pc[w] = "poll"]
    /\ UNCHANGED <<status_callback, continuous_mode, audio_queue, elapsed, workerVars,
                   starts, segs, parseVars>>

\* recorder.continuous_mode = b, set by the caller between sessions
SetContinuousMode(b) ==
    /\ ~recording
    /\ \A w \in Workers : ~Live(w)
    /\ starts < MaxStarts
    /\ continuous_mode # b
    /\ continuous_mode' = b
    /\ UNCHANGED <<recording, status_callback, audio_queue, elapsed, workerVars, countVars,
                   parseVars>>

(***************************************************************************)
(* The capture thread of an open stream.                                   *)
(***************************************************************************)
\* A block: speech is what _is_speech says of it; during is the set of
\* workers that had their stream open when it was enqueued and have not
\* closed it since.
Frame(sp, ws) == [speech |-> sp, during |-> ws]

\* _callback: one block delivered by the stream that worker w holds open
_callback(w, sp) ==
    /\ StreamOpen(w)
    /\ Len(audio_queue) + SumLen(audio, Workers) < MaxFrames
    /\ audio_queue' = Append(audio_queue, Frame(sp, {v \in Workers : StreamOpen(v)}))
    /\ UNCHANGED <<recording, status_callback, continuous_mode, elapsed, workerVars,
                   countVars, parseVars>>

\* d seconds pass while some worker is in the poll loop
Tick(d) ==
    /\ \E w \in Workers : pc[w] = "poll"
    /\ elapsed <= silence_duration
    /\ elapsed' = IF elapsed + d > silence_duration THEN silence_duration + 1 ELSE elapsed + d
    /\ UNCHANGED <<recording, status_callback, continuous_mode, audio_queue, workerVars,
                   countVars, parseVars>>

(***************************************************************************)
(* The worker thread: _run_loop and the methods it calls.                  *)
(***************************************************************************)
\* the thread of worker w ends: its locals are gone
Finish(w, how) ==
    /\ pc' = [pc EXCEPT ![w] = how]
    /\ empty_count' = [empty_count EXCEPT ![w] = 0]
    /\ ntrans' = [ntrans EXCEPT ![w] = 0]
    /\ session' = [session EXCEPT ![w] = 0]
    /\ run' = [run EXCEPT ![w] = 0]

\* _run_loop line 90 and _record_until_silence lines 48-59
LoopHead(w) ==
    /\ pc[w] = "loop"
    /\ IF recording
       THEN /\ segs < MaxSegments
            /\ out' = [out EXCEPT ![w] = <<Report("Listening", 0, <<>>)>>]
            /\ segs' = segs + 1
            /\ stream' = stream \cup {w}
            /\ elapsed' = 0
            /\ pc' = [pc EXCEPT ![w] = "poll"]
       ELSE /\ pc' = [pc EXCEPT ![w] = "exit"]
            /\ UNCHANGED <<out, segs, elapsed, stream>>
    /\ UNCHANGED <<recording, status_callback, continuous_mode, audio_queue, callback,
                   empty_count, audio, stopped, ntrans, run, session, starts, last_call, abandoned,
                   parseVars>>

\* lines 68-72 with >= in place of >
SilenceTimeout_AtLeast(block, e) == ~block.speech /\ e >= silence_duration

\* the decision of lines 68-72 on one block
SilenceTimeout(block, e) == ~block.speech /\ e > silence_duration

\* the time since the last voice is read only inside the poll loop, and line
\* 59 sets it before: it is kept at 0 while no worker polls
Clock(e, w, to) == IF to = "poll" \/ \E v \in Workers \ {w} : pc[v] = "poll" THEN e ELSE 0

\* the stream of worker w is closed: the blocks still queued were enqueued
\* during a segment that is over
Closed(q, w) == [i \in 1..Len(q) |-> [q[i] EXCEPT !.during = @ \ {w}]]

\* the with block that is never left
StreamAfter_Leak(w, to) == stream

\* lines 52-72: the open streams once worker w has taken a turn of the poll
\* loop that leads to to; leaving the loop leaves the with block
StreamAfter(w, to) == IF to = "poll" THEN stream ELSE stream \ {w}

\* _record_until_silence lines 60-72, one turn of the poll loop; when the loop
\* is left the with block is left too, which closes the stream
Poll(w) ==
    /\ pc[w] = "poll"
    /\ IF ~recording
       THEN /\ pc' = [pc EXCEPT ![w] = "recorded"]
            /\ stream' = StreamAfter(w, "recorded")
            /\ elapsed' = Clock(elapsed, w, "recorded")
            /\ audio_queue' = Closed(audio_queue, w)
            /\ UNCHANGED audio
       ELSE /\ audio_queue # <<>>
            /\ audio' = [audio EXCEPT ![w] = Append(@, Head(audio_queue))]
            /\ LET to == IF SilenceTimeout(Head(audio_queue), elapsed) THEN "recorded" ELSE "poll"
               IN  /\ pc' = [pc EXCEPT ![w] = to]
                   /\ stream' = StreamAfter(w, to)
                   /\ elapsed' = Clock(IF Head(audio_queue).speech THEN 0 ELSE elapsed, w, to)
                   /\ audio_queue' = IF to = "poll" THEN Tail(audio_queue)
                                     ELSE Closed(Tail(audio_queue), w)
    /\ UNCHANGED <<recording, status_callback, continuous_mode, callback, empty_count,
                   out, stopped, ntrans, run, session, countVars, parseVars>>

\* line 74, line 92 and _transcribe lines 78-79
Recorded(w) ==
    /\ pc[w] = "recorded"
    /\ audio' = [audio EXCEPT ![w] = <<>>]
    /\ IF audio[w] = <<>>
       THEN \* np.concatenate([]) raises ValueError: the thread dies
            /\ Finish(w, "crashed")
            /\ UNCHANGED out
       ELSE IF ~recording
       THEN /\ pc' = [pc EXCEPT ![w] = "exit"]
            /\ UNCHANGED <<out, empty_count, ntrans, run, session>>
       ELSE /\ pc' = [pc EXCEPT ![w] = "model"]
            /\ out' = [out EXCEPT ![w] = <<Report("Transcribing", 0, <<>>)>>]
            /\ UNCHANGED <<empty_count, ntrans, run, session>>
    /\ abandoned' = [abandoned EXCEPT ![w] = @ /\ pc'[w] = "model"]
    /\ UNCHANGED <<progVars, callback, stream, stopped, starts, last_call, segs, parseVars>>

\* line 95: .strip().lower()
Normalize(r) == Lower(Strip(r))

\* line 100
PersonaName(t) == Strip(Sanitize(Group1(t)))

\* lines 98-116 without the test of line 109
DispatchCalls_NoEmptyTest(t, n, cb) ==
    IF Matches(t)
    THEN <<Event("select_persona", 0, PersonaName(t), None),
           Report("Switched", 0, PersonaName(t))>>
    ELSE <<Event("callback", 0, t, cb)>>

\* lines 98-116: the external calls made for transcript t, with the local
\* empty_count at n and the callback argument cb
DispatchCalls(t, n, cb) ==
    IF Matches(t)
    THEN <<Event("select_persona", 0, PersonaName(t), None),
           Report("Switched", 0, PersonaName(t))>>
    ELSE IF t # <<>>
    THEN <<Event("callback", 0, t, cb)>>
    ELSE <<Report("Silent", n + 1, <<>>)>>

\* lines 98-116: the local empty_count after transcript t
DispatchCount(t, n) ==
    IF Matches(t) THEN n
    ELSE IF t # <<>> THEN 0
    ELSE n + 1

\* line 118: the auto-stop test after transcript t, with the local
\* empty_count at n (already updated); line 106 skips it for a command
\* lines 118-123 left out
AutoStop_Never(t, n) == FALSE

\* line 118 with > in place of >=
AutoStop_Strict(t, n) == ~Matches(t) /\ n > max_empty_loops

AutoStop(t, n) == ~Matches(t) /\ n >= max_empty_loops

\* lines 106 and 118-126: where the loop goes after transcript t, with the
\* local empty_count at n (already updated)
\* lines 106 and 118-126 without the return of line 123
DispatchGoto_NoReturn(t, n) ==
    IF Matches(t) THEN "loop"
    ELSE IF ~continuous_mode THEN "exit"
    ELSE "loop"

DispatchGoto(t, n) ==
    IF Matches(t) THEN "loop"
    ELSE IF AutoStop(t, n) THEN "done"
    ELSE IF ~continuous_mode THEN "exit"
    ELSE "loop"

\* _transcribe lines 82-85 and _run_loop lines 95-126: the transcription
\* returns r and the transcript is dispatched
Transcribe(w, r) ==
    /\ pc[w] = "model"
    /\ LET t == Normalize(r)
           n == DispatchCount(t, empty_count[w])
           to == DispatchGoto(t, n)
           calls == <<Event("transcribe", 0, r, None)>>
                        \o DispatchCalls(t, empty_count[w], callback[w])
       IN  /\ pc' = [pc EXCEPT ![w] = to]
           /\ empty_count' = [empty_count EXCEPT ![w] = IF to = "done" THEN 0 ELSE n]
           /\ ntrans' = [ntrans EXCEPT ![w] = IF to = "done" THEN 0 ELSE @ + 1]
           /\ session' = [session EXCEPT ![w] = IF to = "done" THEN 0 ELSE @]
           /\ run' = [run EXCEPT ![w] =
                        IF to = "done" THEN 0 ELSE IF Strip(r) = <<>> THEN @ + 1 ELSE 0]
           /\ IF AutoStop(t, n)
              THEN \* lines 119-122
                   /\ out' = [out EXCEPT ![w] = calls \o <<Report("Stopped", 0, <<>>)>>]
                   /\ stopped' = [stopped EXCEPT ![w] = @ + 1]
                   /\ recording' = FALSE
              ELSE /\ out' = [out EXCEPT ![w] = calls]
                   /\ UNCHANGED <<stopped, recording>>
    /\ abandoned' = [abandoned EXCEPT ![w] = FALSE]
    /\ UNCHANGED <<status_callback, continuous_mode, audio_queue, elapsed, callback, audio,
                   stream, starts, last_call, segs, parseVars>>

\* lines 128-131
Exit(w) ==
    /\ pc[w] = "exit"
    /\ recording' = FALSE
    /\ out' = [out EXCEPT ![w] = <<Report("Stopped", 0, <<>>)>>]
    /\ stopped' = [stopped EXCEPT ![w] = @ + 1]
    /\ Finish(w, "done")
    /\ UNCHANGED <<status_callback, continuous_mode, audio_queue, elapsed, callback, audio,
                   stream, countVars, parseVars>>

Next ==
    \/ \E on_status \in StatusCallbacks(starts + 1) :
          start_recording_async(TranscriptCallback, on_status)
    \/ stop
    \/ \E b \in BOOLEAN : SetContinuousMode(b)
    \/ \E w \in Workers, sp \in BOOLEAN : _callback(w, sp)
    \/ \E d \in 1..(silence_duration + 1) : Tick(d)
    \/ \E w \in Workers : LoopHead(w)
    \/ \E w \in Workers : Poll(w)
    \/ \E w \in Workers : Recorded(w)
    \/ \E w \in Workers, r \in Transcripts : Transcribe(w, r)
    \/ \E w \in Workers : Exit(w)

Spec == Init /\ [][Next]_vars

\* the caller starts a session only when the thread of the previous one has ended
NextSession ==
    \/ \E on_status \in StatusCallbacks(starts + 1) :
          /\ recording \/ \A w \in Workers : ~Live(w)
          /\ start_recording_async(TranscriptCallback, on_status)
    \/ stop
    \/ \E b \in BOOLEAN : SetContinuousMode(b)
    \/ \E w \in Workers, sp \in BOOLEAN : _callback(w, sp)
    \/ \E d \in 1..(silence_duration + 1) : Tick(d)
    \/ \E w \in Workers : LoopHead(w)
    \/ \E w \in Workers : Poll(w)
    \/ \E w \in Workers : Recorded(w)
    \/ \E w \in Workers, r \in Transcripts : Transcribe(w, r)
    \/ \E w \in Workers : Exit(w)

SpecSession == Init /\ [][NextSession]_vars

(***************************************************************************)
(* Parsing harness: lines 95-116 applied to one transcription result.      *)
(***************************************************************************)
Leads == { <<>>, <<" ">> }
Verbs == { <<"s","w","i","t","c","h">>, <<"S","w","i","t","c","h">>, <<"s","w","a","p">>,
           <<"s","w","i","t","c","h","i","n","g">>, <<"s","w","a">> }
Gaps == { <<>>, <<" ">>, <<" "," "," ">>, <<"\n">> }
Tos == { <<"t","o">>, <<"T","O">>, <<"t","o","o">>, <<>> }
Names == { <<>>, <<"a","r","i","a">>, <<"A","r","i","a">>, <<"a","r","i","a","!","!">>,
           <<"a","-","1">>, <<"!","!">>, <<"a","\n","t">>, <<"t","o"," ","A">> }

\* the transcription results the harness parses
Texts == { l \o v \o g1 \o t \o g2 \o n \o l2 :
             l \in Leads, v \in Verbs, g1 \in Gaps, t \in Tos, g2 \in Gaps, n \in Names,
             l2 \in Leads }

InitParse ==
    /\ InitRecorder
    /\ text \in Texts \cup {SwitchToAria, SwapToAria, SwitchingToAria}
    /\ parsed = NoParse

\* lines 95-116 on text: whether the command is detected, the name given to
\* PersonaService.select_persona, and the external calls made
Parse ==
    /\ parsed = NoParse
    /\ LET t == Normalize(text)
       IN  parsed' = [matched |-> Matches(t),
                      persona |-> IF Matches(t) THEN PersonaName(t) ELSE <<>>,
                      calls |-> DispatchCalls(t, 0, TranscriptCallback),
                      done |-> TRUE]
    /\ UNCHANGED <<progVars, workerVars, countVars, text>>

SpecParse == InitParse /\ [][Parse]_vars

(***************************************************************************)
(* Notions the properties below are stated with.                           *)
(***************************************************************************)
\* worker w takes the step in which a transcription returns and is dispatched
DispatchStep(w) == pc[w] = "model" /\ pc'[w] # "model"

\* what the transcription returned in the dispatch step just taken
Returned(calls) == calls[1].text

\* the events of a kind among calls
OfKind(calls, kinds) == SelectSeq(calls, LAMBDA e : e.kind \in kinds)

\* a new thread takes the place of the ended worker w
Replaced(w) == starts' = starts + 1 /\ pc[w] \in {"done", "crashed"} /\ pc'[w] = "loop"

Silent(k) == Event("Silent", k, <<>>, status_callback)
StoppedStatus == Event("Stopped", 0, <<>>, status_callback)

RECURSIVE SkipSpaces(_, _)
SkipSpaces(t, i) == IF i <= Len(t) /\ t[i] \in Whitespace THEN SkipSpaces(t, i + 1) ELSE i

\* t read from the left as: a verb of k letters, spaces, "to", spaces, and
\* the rest; the rest, or <<>> when t does not read so
RestAfterVerb(t, k) ==
    LET j == SkipSpaces(t, k + 1)
        m == SkipSpaces(t, j + 2)
    IN  IF /\ j > k + 1
           /\ j + 1 <= Len(t)
           /\ t[j] = "t"
           /\ t[j + 1] = "o"
           /\ m > j + 2
           /\ m <= Len(t)
        THEN SubSeq(t, m, Len(t))
        ELSE <<>>

HasPrefix(t, p) == Len(t) >= Len(p) /\ SubSeq(t, 1, Len(p)) = p

\* the suffix of a text that reads "switch|swap <spaces> to <spaces> suffix"
CommandSuffix(t) ==
    IF HasPrefix(t, <<"s","w","i","t","c","h">>) THEN RestAfterVerb(t, 6)
    ELSE IF HasPrefix(t, <<"s","w","a","p">>) THEN RestAfterVerb(t, 4)
    ELSE <<>>

\* s without the characters that are no letter, digit, underscore, white
\* space or hyphen
RECURSIVE NameChars(_)
NameChars(s) ==
    IF s = <<>> THEN <<>>
    ELSE IF Head(s) \in WordChars \/ Head(s) \in Whitespace \/ Head(s) = "-"
         THEN <<Head(s)>> \o NameChars(Tail(s))
         ELSE NameChars(Tail(s))

\* a normalized text is a command when it reads so with a suffix on one line
IsCommand(t) ==
    /\ CommandSuffix(t) # <<>>
    /\ \A i \in 1..Len(CommandSuffix(t)) : CommandSuffix(t)[i] # "\n"

\* a transcription result as the dispatch rule sorts it
Kind(r) ==
    IF Strip(r) = <<>> THEN "empty"
    ELSE IF IsCommand(Lower(Strip(r))) THEN "command"
    ELSE "text"

C2_SingleShot ==
    \A w \in Workers :
        (~continuous_mode /\ ntrans[w] >= 1) => pc[w] \notin {"poll", "recorded", "model"}

(***************************************************************************)
(* C3. The empty-loop counter equals the number of empty transcripts since *)
(* the last non-empty one (a command or a normal transcript).              *)
(***************************************************************************)
C3_CounterIsTrailingEmpties ==
    \A w \in Workers : Live(w) => empty_count[w] = run[w]

(***************************************************************************)
(* C4. Cooperative stop: a worker thread that has ended, ended in Stopped  *)
(* and reported "Stopped." exactly once, at whatever point of the segment  *)
(* stop() came.                                                            *)
(***************************************************************************)
C4_StopReachesStopped ==
    \A w \in Workers : pc[w] \in {"done", "crashed"} => pc[w] = "done" /\ stopped[w] = 1

(***************************************************************************)
(* C5. Once a worker has reported "Stopped." it makes no further external  *)
(* call, and it never reports "Stopped." twice, on every exit path.        *)
(***************************************************************************)
C5_StoppedIsFinal ==
    [][\A w \in Workers :
          /\ stopped'[w] <= 1
          /\ stopped[w] >= 1 =>
               \/ out'[w] = out[w] /\ stopped'[w] = stopped[w] /\ pc'[w] = "done"
               \/ Replaced(w)
      ]_vars

\* a worker that stop() ended has reported "Stopped." as its last call
C5_Witness ==
    \E w \in Workers :
        /\ pc[w] = "done"
        /\ stopped[w] = 1
        /\ out[w][Len(out[w])].kind = "Stopped"
        /\ last_call = "stop"

(***************************************************************************)
(* C6. Idempotent start: start_recording_async called while a session is   *)
(* active (recording set, a worker thread alive) creates no thread, opens  *)
(* no stream and leaves the recording flag, the registered callbacks and   *)
(* all other state of the running session unchanged.                       *)
(***************************************************************************)
C6_IdempotentStart ==
    [][(starts' = starts + 1 /\ recording /\ \E w \in Workers : Live(w)) =>
          UNCHANGED <<progVars, workerVars, segs>>
      ]_vars

\* a second start was called during the first session, which goes on with
\* the callback of the first
C6_Witness ==
    /\ starts = 2
    /\ recording
    /\ status_callback = 1
    /\ pc[1] = "poll"
    /\ pc[2] = "idle"

(***************************************************************************)
(* C7. stop() only clears the recording flag: whatever the state, nothing  *)
(* else changes (callbacks, frame queue, every worker's position, counter  *)
(* and buffer); called while nothing records, it changes no program state. *)
(***************************************************************************)
C7_StopOnlyClearsFlag ==
    [][(last_call' = "stop" /\ (last_call # "stop" \/ recording)) =>
          /\ ~recording'
          /\ UNCHANGED <<status_callback, continuous_mode, audio_queue, elapsed, workerVars,
                         starts, segs>>
      ]_vars

\* stop() came while a worker was listening, with a block queued and its
\* counter above zero
C7_Witness ==
    /\ last_call = "stop"
    /\ ~recording
    /\ audio_queue # <<>>
    /\ \E w \in Workers : pc[w] = "poll" /\ empty_count[w] >= 1

(***************************************************************************)
(* C8. Each dispatched transcript calls the transcript callback exactly    *)
(* once when its normalized text is non-empty and no command, and never    *)
(* otherwise; a command calls select_persona exactly once instead; no      *)
(* other step of a worker calls either.                                    *)
(***************************************************************************)
C8_OneCallPerUtterance ==
    [][\A w \in Workers :
          IF DispatchStep(w)
          THEN LET k == Kind(Returned(out'[w]))
               IN  /\ Len(OfKind(out'[w], {"callback"})) = IF k = "text" THEN 1 ELSE 0
                   /\ Len(OfKind(out'[w], {"select_persona"})) = IF k = "command" THEN 1 ELSE 0
          ELSE out'[w] # out[w] => OfKind(out'[w], {"callback", "select_persona"}) = <<>>
      ]_vars

\* a normal transcript has just been handed to the transcript callback
C8_Witness ==
    \E w \in Workers :
        /\ out[w] # <<>>
        /\ out[w][1].kind = "transcribe"
        /\ Kind(out[w][1].text) = "text"
        /\ Len(OfKind(out[w], {"callback"})) = 1

(***************************************************************************)
(* C9. The text handed to the transcript callback is the raw transcript    *)
(* that the transcription returned, not its normalized form.               *)
(***************************************************************************)
C9_CallbackGetsRaw ==
    \A w \in Workers : \A i \in 1..Len(out[w]) :
        out[w][i].kind = "callback" => out[w][i].text = Returned(out[w])

(***************************************************************************)
(* C10. Command parsing, as claimed: the (trimmed) transcript is a command *)
(* exactly when, case-insensitively, it reads switch|swap, spaces, "to",   *)
(* spaces and a non-empty suffix; the persona name is that suffix of the   *)
(* transcript, sanitized and trimmed: "Switch to Aria" gives "Aria".       *)
(***************************************************************************)
C10_AsClaimed ==
    parsed.done =>
        LET r == Strip(text)
            suffix == CommandSuffix(Lower(r))
            said == SubSeq(r, Len(r) - Len(suffix) + 1, Len(r))
        IN  /\ parsed.matched = (suffix # <<>>)
            /\ parsed.matched => parsed.persona = Strip(NameChars(said))
            /\ text = SwitchToAria => parsed.persona = <<"A", "r", "i", "a">>

(***************************************************************************)
(* C10 as amended. The transcript is a command exactly when, trimmed and   *)
(* lowercased, it reads switch|swap, spaces, "to", spaces and a non-empty  *)
(* suffix on one line; the persona name is the suffix of that normalized   *)
(* text, sanitized and trimmed: "Switch to Aria" gives "aria", "swap   to  *)
(* aria!!" gives "aria", "switching to aria" is no command and goes to the *)
(* transcript callback.                                                    *)
(***************************************************************************)
C10_CommandParsing ==
    parsed.done =>
        LET t == Lower(Strip(text))
            suffix == CommandSuffix(t)
            aria == <<"a", "r", "i", "a">>
        IN  /\ parsed.matched = IsCommand(t)
            /\ parsed.matched =>
                 /\ parsed.persona = Strip(NameChars(suffix))
                 /\ OfKind(parsed.calls, {"select_persona"})
                        = <<Event("select_persona", 0, parsed.persona, None)>>
            /\ text = SwitchToAria => parsed.matched /\ parsed.persona = aria
            /\ text = SwapToAria => parsed.matched /\ parsed.persona = aria
            /\ text = SwitchingToAria =>
                 /\ ~parsed.matched
                 /\ parsed.calls = <<Event("callback", 0, t, TranscriptCallback)>>

\* "swap   to  aria!!" has been parsed
C10_Witness ==
    /\ parsed.done
    /\ text = SwapToAria
    /\ parsed.matched
    /\ parsed.persona = <<"a", "r", "i", "a">>

(***************************************************************************)
(* C11. Endpointing: the time since the last voice starts at 0 when a      *)
(* segment starts and goes back to 0 at every speech block pulled; a       *)
(* pulled block is appended to the utterance, and it ends the segment      *)
(* exactly when it is non-speech and comes strictly more than              *)
(* silence_duration after the last voice, so a speech block never ends a   *)
(* segment and a segment without speech ends at the first block after the  *)
(* timeout; while recording a segment ends at no other moment, and no      *)
(* block is added to an utterance that has been emitted.                   *)
(***************************************************************************)
C11_Endpointing ==
    [][\A w \in Workers :
          /\ (pc[w] # "poll" /\ pc'[w] = "poll") => audio'[w] = <<>> /\ elapsed' = 0
          /\ (pc[w] = "poll" /\ audio'[w] # audio[w]) =>
               LET b == Head(audio_queue)
                   ends == ~b.speech /\ elapsed > silence_duration
               IN  /\ audio'[w] = Append(audio[w], b)
                   /\ audio_queue' \in {Tail(audio_queue), Closed(Tail(audio_queue), w)}
                   /\ pc'[w] = IF ends THEN "recorded" ELSE "poll"
                   /\ ~ends => elapsed' = IF b.speech THEN 0 ELSE elapsed
          /\ (pc[w] = "poll" /\ pc'[w] # "poll" /\ recording) => audio'[w] # audio[w]
          /\ (pc[w] = "poll" /\ audio'[w] = audio[w] /\ pc'[w] = "poll") => elapsed' >= elapsed
          /\ (pc[w] = "recorded" /\ pc'[w] = "recorded") => audio'[w] = audio[w]
      ]_vars

\* a segment has ended at a non-speech block that followed a speech block,
\* and the utterance holds both
C11_Witness ==
    \E w \in Workers :
        /\ pc[w] = "recorded"
        /\ recording
        /\ Len(audio[w]) = 2
        /\ audio[w][1].speech
        /\ ~audio[w][2].speech

(***************************************************************************)
(* C12. No pipelining: while a worker is transcribing or dispatching an    *)
(* utterance, no other utterance is being transcribed and no segment of a  *)
(* next utterance is being captured, whatever start_recording_async and    *)
(* stop calls came before.                                                 *)
(***************************************************************************)
C12_NoPipelining ==
    \A w \in Workers : \A v \in Workers \ {w} :
        pc[w] = "model" => pc[v] \notin {"poll", "model"}

C14_AbandonedOnStop ==
    \A w \in Workers :
        abandoned[w] =>
            /\ pc[w] # "model"
            /\ OfKind(out[w], {"Transcribing"}) = <<>> \/ pc[w] = "poll"

(***************************************************************************)
(* C15. The stop signal of a session is never un-set for it: the recording *)
(* flag, once cleared, is set again only by start_recording_async, and     *)
(* never while a worker of the stopped session is still to test the flag,  *)
(* so that the new start begins a fresh session and resumes no old one.    *)
(***************************************************************************)
C15_StopIsSticky ==
    [][(~recording /\ recording') =>
          /\ starts' = starts + 1
          /\ \A w \in Workers : pc[w] \notin {"loop", "poll", "recorded", "model"}
      ]_vars

(***************************************************************************)
(* C16. While a worker has not ended its empty-loop counter is at most     *)
(* max_empty_loops, and it is below max_empty_loops whenever the worker is *)
(* about to start, is capturing or is transcribing a segment.              *)
(***************************************************************************)
C16_CounterBounded ==
    \A w \in Workers :
        /\ Live(w) => empty_count[w] <= max_empty_loops
        /\ pc[w] \in {"loop", "poll", "recorded", "model"} => empty_count[w] < max_empty_loops

\* a worker is capturing a segment with its counter one below the maximum
C16_Witness ==
    \E w \in Workers : pc[w] = "poll" /\ empty_count[w] = max_empty_loops - 1

(***************************************************************************)
(* C17. Capture is independent of the worker: while a worker of an active  *)
(* session is in the transcription call or in the dispatch that follows    *)
(* it, a stream is open, so that blocks keep being enqueued.               *)
(***************************************************************************)
C17_CaptureIndependent ==
    \A w \in Workers :
        (recording /\ pc[w] = "model") => \E v \in Workers : StreamOpen(v)

(***************************************************************************)
(* C18. At every moment at most one worker thread is alive and at most one *)
(* stream is open, for every interleaving of start_recording_async and     *)
(* stop with the steps of the workers.                                     *)
(***************************************************************************)
C18_OneWorkerOneStream ==
    /\ Cardinality({w \in Workers : Live(w)}) <= 1
    /\ Cardinality({w \in Workers : StreamOpen(w)}) <= 1

\* the session begun last among those whose worker is alive
LatestSession == CHOOSE k \in {session[w] : w \in Workers} : \A v \in Workers : session[v] <= k

(***************************************************************************)
(* C19. A session ends only through its own causes: the recording flag,    *)
(* once set, is cleared only by a call of stop() or by a step of the       *)
(* worker of the session begun last (its auto-stop or its single-shot      *)
(* completion), never by the worker of an earlier session.                 *)
(***************************************************************************)
C19_OwnCausesOnly ==
    [][(recording /\ ~recording') =>
          \/ last_call' = "stop" /\ pc' = pc
          \/ \E w \in Workers : pc'[w] # pc[w] /\ session[w] = LatestSession
      ]_vars

StatusKinds == {"Listening", "Transcribing", "Silent", "Switched", "Stopped"}

(***************************************************************************)
(* C20. Every status a worker reports goes to the status callback passed   *)
(* to the start_recording_async call that created this worker (or to none, *)
(* when none is registered), never to the status callback of another       *)
(* session.                                                                *)
(***************************************************************************)
C20_StatusToOwnSession ==
    [][\A w \in Workers :
          (session[w] # 0 /\ out'[w] # out[w]) =>
              \A i \in 1..Len(out'[w]) :
                  out'[w][i].kind \in StatusKinds => out'[w][i].to \in {None, session[w]}
      ]_vars

(***************************************************************************)
(* C21. Every block of an utterance was enqueued while the stream of the   *)
(* segment that holds it was open: a block left in the queue when a        *)
(* segment ended or was abandoned is never part of the utterance of a      *)
(* later segment.                                                          *)
(***************************************************************************)
C21_NoStaleFrames ==
    \A w \in Workers : \A i \in 1..Len(audio[w]) : w \in audio[w][i].during
====
